---- MODULE Spec2Model ----
(***************************************************************************)
(* Model of the Proxi policy engine (src/src/guardrails/policy_engine.py): *)
(* PolicyEngine, TemporaryPermissionManager and the threading.Timer        *)
(* threads the manager starts.  One application thread issues the public   *)
(* operations statement by statement; every armed Timer is a thread of its *)
(* own that wakes at its deadline and runs _expire.                        *)
(***************************************************************************)
EXTENDS Integers, Sequences, FiniteSets, TLC

\* ------------------------------------------------------------------ bounds
MaxTime == 1
MaxTimers == 2
MaxHist == 2
MaxDuration == 1
MaxLog == 2

\* ------------------------------------------------------- program vocabulary
Modes == {"NORMAL", "EMERGENCY"}
ModeInputs == Modes \cup {"BOGUS"}
Services == {"web-server", "cache"}
NoService == "<none>"
ServiceArgs == Services \cup {NoService}
Tools == {"delete_database", "restart_service", "scale_fleet",
          "get_service_status", "list_services"}
NoTime == -1
NoTimer == 0
None == "<None>"
TimerIds == 1..MaxTimers
Durations == 1..MaxDuration

\* CloudInfrastructure: service health, the fleet, the arguments of the tools
Health == {"healthy", "degraded", "critical"}
FleetSize == 3
NoCount == -1
Counts == {0, 9}
CountArgs == Counts \cup {NoCount}
CatalogTools == Tools \cup {"read_logs"}
ExecutionModes == {"REAL", "SHADOW", "shadow", "BOGUS"}

\* the limit query parameter of GET /execution/history, any integer
Limits == -1 .. MaxHist + 1

\* incident_scope: {} (falsy) or a dict holding affected_services
NoScope == [present |-> FALSE, affected |-> {}]
Scope(S) == [present |-> TRUE, affected |-> S]

\* ------------------------------------------------------------ policy document
ReadOnlyTools == {"get_service_status", "read_logs"}
CorrectiveTools == {"restart_service", "scale_fleet"}

PolicyDocument(restricted, emergencyBlocked) ==
    [always_blocked |-> {"delete_database"},
     modes |-> [NORMAL |-> [allowed_tools |-> ReadOnlyTools,
                            blocked_tools |-> CorrectiveTools \cup {"delete_database"},
                            enabled |-> FALSE],
                EMERGENCY |-> [allowed_tools |-> ReadOnlyTools \cup CorrectiveTools,
                               blocked_tools |-> emergencyBlocked,
                               enabled |-> restricted]]]

\* policies/ops_policy.json as main.py, bot.py and the tool catalog describe it
OpsPolicy == PolicyDocument(TRUE, {"delete_database"})

\* documents _load_policy accepts: it parses the JSON and checks nothing
PolicyDocs ==
    { OpsPolicy,
      PolicyDocument(FALSE, {"delete_database"}),
      PolicyDocument(TRUE, {"delete_database", "scale_fleet"}) }

\* validate's shadow_mode argument; execute_tool, its caller, passes False
ShadowInputs == {FALSE}

VARIABLES
    policy,              \* PolicyEngine.policy
    current_mode,        \* PolicyEngine.current_mode
    base_mode,           \* PolicyEngine.base_mode
    unhealthy_services,  \* PolicyEngine.unhealthy_services
    incident_scope,      \* PolicyEngine.incident_scope
    execution_history,   \* PolicyEngine.execution_history
    is_active,           \* TemporaryPermissionManager.is_active
    expiry_time,         \* TemporaryPermissionManager.expiry_time
    timer,               \* TemporaryPermissionManager.timer (a timer id)
    lock,                \* TemporaryPermissionManager.lock: "free", or held by "app" or "timer"
    timers,              \* the threading.Timer objects created so far
    now,                 \* the clock
    services,            \* CloudInfrastructure.services
    fleet_size,          \* CloudInfrastructure.fleet_size
    execution_log,       \* CloudInfrastructure.execution_log (the action names)
    pc,                  \* position of the application thread
    frame,               \* locals of the call the application thread is in
    ret                  \* what that call returned or raised

vars == <<policy, current_mode, base_mode, unhealthy_services, incident_scope,
          execution_history, is_active, expiry_time, timer,
          lock, timers, now, services, fleet_size, execution_log,
          pc, frame, ret>>

engineVars == <<current_mode, base_mode, unhealthy_services, incident_scope>>
grantVars == <<is_active, expiry_time, timer, lock, timers>>
infraVars == <<services, fleet_size, execution_log>>

\* the engine state a call found when it was entered
Snapshot == [mode |-> current_mode, base |-> base_mode,
             unhealthy |-> unhealthy_services, scope |-> incident_scope,
             active |-> is_active, expiry |-> expiry_time]
NoSnapshot == [mode |-> None, base |-> None, unhealthy |-> {}, scope |-> NoScope,
               active |-> FALSE, expiry |-> NoTime]

\* an impact report keeps the keys the decisions rest on; a key a report
\* does not have is None (0 for "change", 0 alternatives for no list)
NoReport ==
    [action |-> None, target |-> None, current_health |-> None,
     risk_level |-> None, reversible |-> FALSE, recommendation |-> None,
     alternatives |-> 0, change |-> 0, timestamp |-> NoTime]

EmptyFrame ==
    [op |-> None, tool |-> None, svc |-> NoService, shadow |-> FALSE,
     pol_mode |-> None, mode |-> None, duration |-> 0, services |-> {},
     count |-> NoCount, exec_mode |-> None, report |-> NoReport,
     limit |-> 0, history |-> <<>>, pre |-> NoSnapshot]

Init ==
    /\ policy = OpsPolicy
    /\ current_mode = "NORMAL"
    /\ base_mode = "NORMAL"
    /\ unhealthy_services = {}
    /\ incident_scope = NoScope
    /\ execution_history = <<>>
    /\ is_active = FALSE
    /\ expiry_time = NoTime
    /\ timer = NoTimer
    /\ lock = "free"
    /\ timers = [t \in TimerIds |-> [st |-> "unused", finished |-> FALSE, deadline |-> 0]]
    /\ now = 0
    /\ services = [s \in Services |-> "healthy"]
    /\ fleet_size = FleetSize
    /\ execution_log = <<>>
    /\ pc = "idle"
    /\ frame = EmptyFrame
    /\ ret = None

\* ------------------------------------------------------------------ helpers
\* threading.Timer.cancel(): sets the finished event.  Timer.run tests the
\* event once, when its wait ends, so only a timer still waiting ("armed")
\* is stopped; one that has passed the test goes on to call _expire.
Cancel(ts, t) ==
    IF t = NoTimer THEN ts
    ELSE IF ts[t].st = "armed"
    THEN [ts EXCEPT ![t] = [st |-> "canceled", finished |-> TRUE, deadline |-> 0]]
    ELSE [ts EXCEPT ![t].finished = TRUE]

FreshTimer == CHOOSE t \in TimerIds : timers[t].st = "unused" /\
                  \A u \in TimerIds : timers[u].st = "unused" => t <= u
HasFreshTimer == \E t \in TimerIds : timers[t].st = "unused"

\* mutant: the grant still counts as valid at the instant it expires
IsValid_Inclusive == is_active /\ (expiry_time = NoTime \/ now <= expiry_time)

\* TemporaryPermissionManager.is_valid, evaluated under the lock
IsValid == is_active /\ (expiry_time = NoTime \/ now < expiry_time)

\* TemporaryPermissionManager.remaining_time, evaluated under the lock
RemainingTime ==
    IF ~is_active \/ expiry_time = NoTime THEN NoTime
    ELSE IF expiry_time - now > 0 THEN expiry_time - now ELSE 0

\* An entry of execution_history keeps "action" (grant, extend and
\* set_incident_scope entries), "tool_name", "shadow_mode" and "result"
\* (validation records); timestamps, arguments and the recorded mode are
\* left out.  A key the Python dict does not have is None here.
ActionRecord(name) ==
    [action |-> name, tool_name |-> None, shadow_mode |-> FALSE, result |-> None]

Finish(result) ==
    /\ pc' = "done"
    /\ ret' = result

\* the call returns to its caller
Return ==
    /\ pc = "done"
    /\ pc' = "idle"
    /\ ret' = None
    /\ frame' = EmptyFrame
    /\ UNCHANGED <<policy, infraVars, engineVars, execution_history,
                   grantVars, now>>

\* -------------------------------------------------------------------- clock
\* time passes; the clock is followed up to MaxTime and, beyond it, up to
\* the deadline of a timer that is still waiting
Tick ==
    /\ \/ now < MaxTime
       \/ \E t \in TimerIds : timers[t].st = "armed" /\ timers[t].deadline > now
    /\ now' = now + 1
    /\ UNCHANGED <<policy, infraVars, engineVars, execution_history,
                   grantVars, pc, frame, ret>>

\* ------------------------------------------------------- the Timer threads
\* Timer.run: the interval has elapsed and finished is not set
TimerWake(t) ==
    /\ timers[t].st = "armed"
    /\ now >= timers[t].deadline
    /\ timers' = [timers EXCEPT ![t] = [st |-> "fired", finished |-> FALSE, deadline |-> 0]]
    /\ UNCHANGED <<policy, infraVars, engineVars, execution_history,
                   is_active, expiry_time,
                   timer, lock, now, pc, frame, ret>>

\* _expire: with self.lock: is_active = False; expiry_time = None; timer = None.
\* on_expiry_callback is set whenever a timer exists (grant stores it before
\* it starts the timer, and its only caller passes on_expiry), so the
\* callback always follows.
ExpireClear(t) ==
    /\ timers[t].st = "fired"
    /\ lock = "free"
    /\ lock' = "timer"
    /\ is_active' = FALSE
    /\ expiry_time' = NoTime
    /\ timer' = NoTimer
    /\ timers' = [timers EXCEPT ![t].st = "cb_mode"]
    /\ UNCHANGED <<policy, infraVars, engineVars, execution_history, now, pc,
                   frame, ret>>

\* mutant: the callback leaves current_mode as it is
OnExpiryMode_KeepsMode(t) ==
    /\ timers[t].st = "cb_mode"
    /\ timers' = [timers EXCEPT ![t].st = "cb_scope"]
    /\ UNCHANGED <<policy, infraVars, engineVars, execution_history,
                   is_active, expiry_time,
                   timer, lock, now, pc, frame, ret>>

\* on_expiry: self.current_mode = self.base_mode
OnExpiryMode(t) ==
    /\ timers[t].st = "cb_mode"
    /\ current_mode' = base_mode
    /\ timers' = [timers EXCEPT ![t].st = "cb_scope"]
    /\ UNCHANGED <<policy, infraVars, base_mode, unhealthy_services,
                   incident_scope,
                   execution_history, is_active, expiry_time, timer,
                   lock, now, pc, frame, ret>>

\* on_expiry: self.incident_scope = {}; then _expire leaves the with block
\* and Timer.run sets finished
OnExpiryScope(t) ==
    /\ timers[t].st = "cb_scope"
    /\ incident_scope' = NoScope
    /\ lock' = "free"
    /\ timers' = [timers EXCEPT ![t] = [st |-> "done", finished |-> TRUE, deadline |-> 0]]
    /\ UNCHANGED <<policy, infraVars, current_mode, base_mode,
                   unhealthy_services,
                   execution_history, is_active, expiry_time, timer,
                   now, pc, frame, ret>>

\* ------------------------------------------- application thread: Cinderella
\* TemporaryPermissionManager.revoke, the body of its with block
RevokeLocked ==
    /\ lock = "free"
    /\ timers' = Cancel(timers, timer)
    /\ timer' = NoTimer
    /\ is_active' = FALSE
    /\ expiry_time' = NoTime
    /\ UNCHANGED lock

\* TemporaryPermissionManager.grant, the body of its with block
GrantLocked(d) ==
    /\ lock = "free"
    /\ is_active' = TRUE
    /\ expiry_time' = now + d
    /\ timer' = FreshTimer
    /\ timers' = [Cancel(timers, timer) EXCEPT
                     ![FreshTimer] = [st |-> "armed", finished |-> FALSE,
                                      deadline |-> now + d]]
    /\ UNCHANGED lock

\* grant_temporary_emergency, line 169: self.base_mode = self.current_mode
GrantBase(d) ==
    /\ pc = "idle"
    /\ Len(execution_history) < MaxHist
    /\ HasFreshTimer
    /\ frame' = [EmptyFrame EXCEPT !.op = "grant", !.duration = d, !.pre = Snapshot]
    /\ base_mode' = current_mode
    /\ pc' = "g_mode"
    /\ UNCHANGED <<policy, infraVars, current_mode, unhealthy_services,
                   incident_scope,
                   execution_history, grantVars, now, ret>>

\* line 170: self.current_mode = "EMERGENCY"
GrantMode ==
    /\ pc = "g_mode"
    /\ current_mode' = "EMERGENCY"
    /\ pc' = "g_grant"
    /\ UNCHANGED <<policy, infraVars, base_mode, unhealthy_services,
                   incident_scope,
                   execution_history, grantVars, now, frame, ret>>

\* lines 176-183: temp_permission.grant(...) and the history entry
GrantTimer ==
    /\ pc = "g_grant"
    /\ GrantLocked(frame.duration)
    /\ execution_history' =
           Append(execution_history, ActionRecord("grant_temporary_emergency"))
    /\ Finish("ok")
    /\ UNCHANGED <<policy, infraVars, engineVars, now, frame>>

\* revoke_temporary_emergency, line 200
RevokeCall ==
    /\ pc = "idle"
    /\ RevokeLocked
    /\ frame' = [EmptyFrame EXCEPT !.op = "revoke"]
    /\ pc' = "r_mode"
    /\ UNCHANGED <<policy, infraVars, engineVars, execution_history, now, ret>>

\* line 201: self.current_mode = self.base_mode
RevokeMode ==
    /\ pc = "r_mode"
    /\ current_mode' = base_mode
    /\ pc' = "r_scope"
    /\ UNCHANGED <<policy, infraVars, base_mode, unhealthy_services,
                   incident_scope,
                   execution_history, grantVars, now, frame, ret>>

\* mutant: revoke leaves the incident scope in place
RevokeScope_KeepsScope ==
    /\ pc = "r_scope"
    /\ Finish("ok")
    /\ UNCHANGED <<policy, infraVars, engineVars, execution_history,
                   grantVars, now, frame>>

\* line 202: self.incident_scope = {}
RevokeScope ==
    /\ pc = "r_scope"
    /\ incident_scope' = NoScope
    /\ Finish("ok")
    /\ UNCHANGED <<policy, infraVars, current_mode, base_mode,
                   unhealthy_services,
                   execution_history, grantVars, now, frame>>

\* mutant: a rejected mode name drops the temporary mode on the way out
SetModeCall_ResetsOnError(m) ==
    /\ pc = "idle"
    /\ frame' = [EmptyFrame EXCEPT !.op = "set_mode", !.mode = m]
    /\ IF m \notin DOMAIN policy.modes
       THEN Finish("ValueError") /\ current_mode' = base_mode
       ELSE /\ lock = "free"
            /\ pc' = IF IsValid THEN "sm_revoke" ELSE "sm_current"
            /\ UNCHANGED <<ret, current_mode>>
    /\ UNCHANGED <<policy, infraVars, base_mode, unhealthy_services,
                   incident_scope, execution_history, grantVars, now>>

\* set_mode, lines 155-158: the mode check and is_valid()
SetModeCall(m) ==
    /\ pc = "idle"
    /\ frame' = [EmptyFrame EXCEPT !.op = "set_mode", !.mode = m]
    /\ IF m \notin DOMAIN policy.modes
       THEN Finish("ValueError")
       ELSE /\ lock = "free"
            /\ pc' = IF IsValid THEN "sm_revoke" ELSE "sm_current"
            /\ UNCHANGED ret
    /\ UNCHANGED <<policy, infraVars, engineVars, execution_history,
                   grantVars, now>>

\* line 159: self.temp_permission.revoke()
SetModeRevoke ==
    /\ pc = "sm_revoke"
    /\ RevokeLocked
    /\ pc' = "sm_current"
    /\ UNCHANGED <<policy, infraVars, engineVars, execution_history, now,
                   frame, ret>>

\* line 161: self.current_mode = mode
SetModeCurrent ==
    /\ pc = "sm_current"
    /\ current_mode' = frame.mode
    /\ pc' = "sm_base"
    /\ UNCHANGED <<policy, infraVars, base_mode, unhealthy_services,
                   incident_scope,
                   execution_history, grantVars, now, frame, ret>>

\* line 162: self.base_mode = mode
SetModeBase ==
    /\ pc = "sm_base"
    /\ base_mode' = frame.mode
    /\ Finish("ok")
    /\ UNCHANGED <<policy, infraVars, current_mode, unhealthy_services,
                   incident_scope,
                   execution_history, grantVars, now, frame>>

\* mutant: the is_valid() guard of line 187 is missing
ExtendCall_Unchecked(k) ==
    /\ pc = "idle"
    /\ Len(execution_history) < MaxHist
    /\ lock = "free"
    /\ frame' = [EmptyFrame EXCEPT !.op = "extend", !.duration = k]
    /\ pc' = "ext_extend"
    /\ UNCHANGED <<policy, infraVars, engineVars, execution_history,
                   grantVars, now, ret>>

\* extend_temporary_emergency, lines 187-188
ExtendCall(k) ==
    /\ pc = "idle"
    /\ Len(execution_history) < MaxHist
    /\ lock = "free"
    /\ frame' = [EmptyFrame EXCEPT !.op = "extend", !.duration = k]
    /\ IF IsValid
       THEN pc' = "ext_extend" /\ UNCHANGED ret
       ELSE Finish("ValueError")
    /\ UNCHANGED <<policy, infraVars, engineVars, execution_history,
                   grantVars, now>>

\* TemporaryPermissionManager.extend, lines 99-103: it takes the lock and
\* returns when the grant is inactive; otherwise it calls remaining_time(),
\* which waits for the same non-reentrant threading.Lock: the thread stays
\* at "ext_remaining" holding the lock, and lines 104-114 are never reached.
ExtendLocked ==
    /\ pc = "ext_extend"
    /\ lock = "free"
    /\ IF is_active
       THEN /\ lock' = "app"
            /\ pc' = "ext_remaining"
            /\ UNCHANGED <<execution_history, ret>>
       ELSE /\ execution_history' =
                  Append(execution_history, ActionRecord("extend_temporary_emergency"))
            /\ Finish("ok")
            /\ UNCHANGED lock
    /\ UNCHANGED <<policy, infraVars, engineVars, is_active, expiry_time,
                   timer, timers,
                   now, frame>>

\* ---------------------------------------------- application thread: Scalpel
\* mutant: the new scope is merged into the existing one
SetIncidentScope_Merges(S) ==
    /\ pc = "idle"
    /\ Len(execution_history) < MaxHist
    /\ frame' = [EmptyFrame EXCEPT !.op = "set_incident_scope", !.services = S]
    /\ incident_scope' = Scope(incident_scope.affected \cup S)
    /\ unhealthy_services' = unhealthy_services \cup S
    /\ execution_history' = Append(execution_history, ActionRecord("set_incident_scope"))
    /\ Finish("ok")
    /\ UNCHANGED <<policy, infraVars, current_mode, base_mode, grantVars, now>>

\* set_incident_scope, lines 221-243
SetIncidentScope(S) ==
    /\ pc = "idle"
    /\ Len(execution_history) < MaxHist
    /\ frame' = [EmptyFrame EXCEPT !.op = "set_incident_scope", !.services = S]
    /\ incident_scope' = Scope(S)
    /\ unhealthy_services' = unhealthy_services \cup S
    /\ execution_history' = Append(execution_history, ActionRecord("set_incident_scope"))
    /\ Finish("ok")
    /\ UNCHANGED <<policy, infraVars, current_mode, base_mode, grantVars, now>>

\* mutant: clearing the scope also forgets the unhealthy services
ClearIncidentScope_Forgets ==
    /\ pc = "idle"
    /\ frame' = [EmptyFrame EXCEPT !.op = "clear_incident_scope"]
    /\ incident_scope' = NoScope
    /\ unhealthy_services' = {}
    /\ Finish("ok")
    /\ UNCHANGED <<policy, infraVars, current_mode, base_mode,
                   execution_history, grantVars, now>>

\* clear_incident_scope, line 247
ClearIncidentScope ==
    /\ pc = "idle"
    /\ frame' = [EmptyFrame EXCEPT !.op = "clear_incident_scope"]
    /\ incident_scope' = NoScope
    /\ Finish("ok")
    /\ UNCHANGED <<policy, infraVars, current_mode, base_mode,
                   unhealthy_services,
                   execution_history, grantVars, now>>

\* mutant: registering a service forgets the ones registered before
RegisterUnhealthyService_Replaces(s) ==
    /\ pc = "idle"
    /\ frame' = [EmptyFrame EXCEPT !.op = "register_unhealthy_service", !.svc = s]
    /\ unhealthy_services' = {s}
    /\ Finish("ok")
    /\ UNCHANGED <<policy, infraVars, current_mode, base_mode, incident_scope,
                   execution_history, grantVars, now>>

\* register_unhealthy_service, line 252
RegisterUnhealthyService(s) ==
    /\ pc = "idle"
    /\ frame' = [EmptyFrame EXCEPT !.op = "register_unhealthy_service", !.svc = s]
    /\ unhealthy_services' = unhealthy_services \cup {s}
    /\ Finish("ok")
    /\ UNCHANGED <<policy, infraVars, current_mode, base_mode, incident_scope,
                   execution_history, grantVars, now>>

\* mark_service_healthy, line 257
MarkServiceHealthy(s) ==
    /\ pc = "idle"
    /\ frame' = [EmptyFrame EXCEPT !.op = "mark_service_healthy", !.svc = s]
    /\ unhealthy_services' = unhealthy_services \ {s}
    /\ Finish("ok")
    /\ UNCHANGED <<policy, infraVars, current_mode, base_mode, incident_scope,
                   execution_history, grantVars, now>>

\* ------------------------------------------------ application thread: validate
\* _is_modification_tool
IsModificationTool(tool) ==
    tool \in {"restart_service", "scale_fleet", "delete_database"}

\* mutant: the global block-list is consulted only outside EMERGENCY
GloballyBlocked_NotInEmergency(tool) ==
    tool \in policy.always_blocked /\ current_mode # "EMERGENCY"

\* line 286: the global block-list
GloballyBlocked(tool) == tool \in policy.always_blocked

\* validation_record["result"] of line 328
MissingTarget == "MISSING_SERVICE"

\* mutant: the missing-target check runs before the mode lists
ModeChecks_TargetFirst(mode_policy, tool, svc) ==
    IF IsModificationTool(tool) /\ svc = NoService THEN MissingTarget
    ELSE IF tool \in mode_policy.blocked_tools THEN "BLOCKED_MODE"
    ELSE IF tool \notin mode_policy.allowed_tools THEN "NOT_WHITELISTED"
    ELSE IF IsModificationTool(tool) THEN "continue"
    ELSE "ALLOWED"

\* mutant: default allow, a tool is rejected only when it is block-listed
ModeChecks_NoWhitelist(mode_policy, tool, svc) ==
    IF tool \in mode_policy.blocked_tools THEN "BLOCKED_MODE"
    ELSE IF IsModificationTool(tool) /\ svc = NoService THEN MissingTarget
    ELSE IF IsModificationTool(tool) THEN "continue"
    ELSE "ALLOWED"

\* mutant: the allow-list is consulted first and settles the tools it holds
ModeChecks_AllowFirst(mode_policy, tool, svc) ==
    IF tool \notin mode_policy.allowed_tools
    THEN IF tool \in mode_policy.blocked_tools THEN "BLOCKED_MODE"
         ELSE "NOT_WHITELISTED"
    ELSE IF IsModificationTool(tool) /\ svc = NoService THEN MissingTarget
    ELSE IF IsModificationTool(tool) THEN "continue"
    ELSE "ALLOWED"

\* mutant: the block-list of the mode is not consulted
ModeChecks_NoBlockList(mode_policy, tool, svc) ==
    IF tool \notin mode_policy.allowed_tools THEN "NOT_WHITELISTED"
    ELSE IF IsModificationTool(tool) /\ svc = NoService THEN MissingTarget
    ELSE IF IsModificationTool(tool) THEN "continue"
    ELSE "ALLOWED"

\* lines 300-336: the checks that read only mode_policy and the arguments;
\* "continue" is the fall-through to the next check
ModeChecks(mode_policy, tool, svc) ==
    IF tool \in mode_policy.blocked_tools THEN "BLOCKED_MODE"
    ELSE IF tool \notin mode_policy.allowed_tools THEN "NOT_WHITELISTED"
    ELSE IF IsModificationTool(tool) /\ svc = NoService THEN MissingTarget
    ELSE IF IsModificationTool(tool) THEN "continue"
    ELSE "ALLOWED"

\* lines 339-354: EMERGENCY, restrictions enabled, service not unhealthy
UnhealthyCheck(mode, mode_policy, svc, unhealthy) ==
    IF mode = "EMERGENCY" /\ mode_policy.enabled
    THEN IF svc \notin unhealthy THEN "SERVICE_HEALTHY" ELSE "continue"
    ELSE "ALLOWED"

\* mutant: the incident scope is not consulted
ScopeCheck_Ignored(scope, svc) == "ALLOWED"

\* lines 358-369: incident_scope.get('affected_services', set())
ScopeCheck(scope, svc) ==
    IF svc \notin scope.affected THEN "OUT_OF_SCOPE" ELSE "ALLOWED"

\* mutant: the record is appended before its result is filled in
ValidationRecord_NoResult(f, result) ==
    [action |-> None, tool_name |-> f.tool, shadow_mode |-> f.shadow,
     result |-> None]

\* lines 276-283: validation_record, with the result set before the append
ValidationRecord(f, result) ==
    [action |-> None, tool_name |-> f.tool, shadow_mode |-> f.shadow,
     result |-> result]

\* validation_record["result"] = r; execution_history.append(...); then the
\* PolicyViolationError, or for ALLOWED the status lines that follow line 373
Decide(f, r) ==
    /\ execution_history' = Append(execution_history, ValidationRecord(f, r))
    /\ IF r = "ALLOWED"
       THEN pc' = "v_is_valid" /\ UNCHANGED ret
       ELSE Finish(r)

\* lines 273-295: the record is built from current_mode; global block-list
ValidateCall(tool, svc, shadow) ==
    /\ pc = "idle"
    /\ Len(execution_history) < MaxHist
    /\ LET f == [EmptyFrame EXCEPT !.op = "validate", !.tool = tool, !.svc = svc,
                                   !.shadow = shadow, !.pre = Snapshot]
       IN /\ frame' = f
          /\ IF GloballyBlocked(tool)
             THEN Decide(f, "BLOCKED_GLOBAL")
             ELSE pc' = "v_mode" /\ UNCHANGED <<execution_history, ret>>
    /\ UNCHANGED <<policy, infraVars, engineVars, grantVars, now>>

\* lines 297-336: mode_policy = self.policy['modes'][self.current_mode]
ValidateMode ==
    /\ pc = "v_mode"
    /\ LET f == [frame EXCEPT !.pol_mode = current_mode]
           r == ModeChecks(policy.modes[current_mode], f.tool, f.svc)
       IN /\ frame' = f
          /\ IF r = "continue"
             THEN pc' = "v_emergency" /\ UNCHANGED <<execution_history, ret>>
             ELSE Decide(f, r)
    /\ UNCHANGED <<policy, infraVars, engineVars, grantVars, now>>

\* lines 339-354: self.current_mode is read again, mode_policy is the one
\* fetched at line 297
ValidateEmergency ==
    /\ pc = "v_emergency"
    /\ LET r == UnhealthyCheck(current_mode, policy.modes[frame.pol_mode],
                               frame.svc, unhealthy_services)
       IN IF r = "continue"
          THEN pc' = "v_scope" /\ UNCHANGED <<execution_history, ret>>
          ELSE Decide(frame, r)
    /\ UNCHANGED <<policy, infraVars, engineVars, grantVars, now, frame>>

\* line 357: if self.incident_scope
ValidateScope ==
    /\ pc = "v_scope"
    /\ IF incident_scope.present
       THEN pc' = "v_affected" /\ UNCHANGED <<execution_history, ret>>
       ELSE Decide(frame, "ALLOWED")
    /\ UNCHANGED <<policy, infraVars, engineVars, grantVars, now, frame>>

\* lines 358-369: self.incident_scope is read again
ValidateAffected ==
    /\ pc = "v_affected"
    /\ Decide(frame, ScopeCheck(incident_scope, frame.svc))
    /\ UNCHANGED <<policy, infraVars, engineVars, grantVars, now, frame>>

\* mutant: validate reverts the mode itself when it finds the grant invalid
ValidateIsValid_Reverts ==
    /\ pc = "v_is_valid"
    /\ lock = "free"
    /\ IF IsValid
       THEN pc' = "v_remaining" /\ UNCHANGED <<ret, current_mode>>
       ELSE Finish("ALLOWED") /\ current_mode' = base_mode
    /\ UNCHANGED <<policy, infraVars, base_mode, unhealthy_services,
                   incident_scope,
                   execution_history, grantVars, now, frame>>

\* line 376: if self.temp_permission.is_valid()
ValidateIsValid ==
    /\ pc = "v_is_valid"
    /\ lock = "free"
    /\ IF IsValid
       THEN pc' = "v_remaining" /\ UNCHANGED ret
       ELSE Finish("ALLOWED")
    /\ UNCHANGED <<policy, infraVars, engineVars, execution_history,
                   grantVars, now, frame>>

\* lines 377-378: remaining = remaining_time(); f"{remaining:.1f}" raises
\* TypeError when the grant expired after line 376 and remaining is None
ValidateRemaining ==
    /\ pc = "v_remaining"
    /\ lock = "free"
    /\ Finish(IF RemainingTime = NoTime THEN "TypeError" ELSE "ALLOWED")
    /\ UNCHANGED <<policy, infraVars, engineVars, execution_history,
                   grantVars, now, frame>>

\* ------------------------------------------------------- ImpactSimulator
\* infra.services.get(service, "unknown")
HealthOf(svc) == IF svc \in DOMAIN services THEN services[svc] ELSE "unknown"

\* _simulate_restart, lines 56-98
SimulateRestart(svc, t) ==
    LET service == IF svc = NoService THEN "unknown" ELSE svc
        current_health == HealthOf(service)
    IN [action |-> "restart_service",
        target |-> service,
        current_health |-> current_health,
        risk_level |-> IF current_health # "healthy" THEN "medium" ELSE "low",
        reversible |-> TRUE,
        recommendation |-> IF current_health # "healthy"
                           THEN "Proceed - service is unhealthy"
                           ELSE "Not recommended - service is healthy",
        alternatives |-> IF current_health = "healthy" THEN 3 ELSE 0,
        change |-> 0,
        timestamp |-> t]

\* abs(delta)
Abs(n) == IF n < 0 THEN 0 - n ELSE n

\* mutant: the risk of a scaling grows with the time of the call
SimulateScale_Aged(count, t) ==
    LET target == IF count = NoCount THEN fleet_size ELSE count
        delta == target - fleet_size
    IN [action |-> "scale_fleet",
        target |-> None,
        current_health |-> None,
        risk_level |-> IF Abs(delta) > 5 \/ t > 0 THEN "medium" ELSE "low",
        reversible |-> TRUE,
        recommendation |-> IF Abs(delta) > 3 THEN "Proceed with caution"
                           ELSE "Safe to proceed",
        alternatives |-> 3,
        change |-> delta,
        timestamp |-> t]

\* _simulate_scale, lines 100-135
SimulateScale(count, t) ==
    LET target == IF count = NoCount THEN fleet_size ELSE count
        delta == target - fleet_size
    IN [action |-> "scale_fleet",
        target |-> None,
        current_health |-> None,
        risk_level |-> IF Abs(delta) > 5 THEN "medium" ELSE "low",
        reversible |-> TRUE,
        recommendation |-> IF Abs(delta) > 3 THEN "Proceed with caution"
                           ELSE "Safe to proceed",
        alternatives |-> 3,
        change |-> delta,
        timestamp |-> t]

\* mutant: a deletion is reported as reversible
SimulateDelete_Reversible(t) ==
    [action |-> "delete_database",
     target |-> "unknown",
     current_health |-> None,
     risk_level |-> "CRITICAL",
     reversible |-> TRUE,
     recommendation |-> "NEVER PROCEED - Use alternatives",
     alternatives |-> 5,
     change |-> 0,
     timestamp |-> t]

\* _simulate_delete, lines 137-173; the requests of the model carry no
\* db_name, so the target is args.get("db_name", "unknown")
SimulateDelete(t) ==
    [action |-> "delete_database",
     target |-> "unknown",
     current_health |-> None,
     risk_level |-> "CRITICAL",
     reversible |-> FALSE,
     recommendation |-> "NEVER PROCEED - Use alternatives",
     alternatives |-> 5,
     change |-> 0,
     timestamp |-> t]

\* _simulate_status_check, lines 175-191
SimulateStatusCheck(svc, t) ==
    [action |-> "get_service_status",
     target |-> IF svc = NoService THEN "all services" ELSE svc,
     current_health |-> None,
     risk_level |-> "none",
     reversible |-> TRUE,
     recommendation |-> "Safe to proceed - read-only operation",
     alternatives |-> 0,
     change |-> 0,
     timestamp |-> t]

\* _simulate_read_logs, lines 193-209
SimulateReadLogs(t) ==
    [action |-> "read_logs",
     target |-> None,
     current_health |-> None,
     risk_level |-> "none",
     reversible |-> TRUE,
     recommendation |-> "Safe to proceed - read-only operation",
     alternatives |-> 0,
     change |-> 0,
     timestamp |-> t]

\* simulate, lines 47-54: the branch of every other tool name
SimulateDefault(tool, t) ==
    [action |-> tool,
     target |-> None,
     current_health |-> None,
     risk_level |-> "low",
     reversible |-> TRUE,
     recommendation |-> None,
     alternatives |-> 0,
     change |-> 0,
     timestamp |-> t]

\* simulate, lines 19-54; t is datetime.now() at the call
Simulate(tool, svc, count, t) ==
    IF tool = "restart_service" THEN SimulateRestart(svc, t)
    ELSE IF tool = "scale_fleet" THEN SimulateScale(count, t)
    ELSE IF tool = "delete_database" THEN SimulateDelete(t)
    ELSE IF tool = "get_service_status" THEN SimulateStatusCheck(svc, t)
    ELSE IF tool = "read_logs" THEN SimulateReadLogs(t)
    ELSE SimulateDefault(tool, t)

\* impact_simulator.simulate(tool_name, arguments, cloud_infra), called on
\* its own
SimulateCall(tool, svc, count) ==
    /\ pc = "idle"
    /\ frame' = [EmptyFrame EXCEPT !.op = "simulate", !.tool = tool, !.svc = svc,
                                   !.count = count,
                                   !.report = Simulate(tool, svc, count, now)]
    /\ Finish("report")
    /\ UNCHANGED <<policy, infraVars, engineVars, execution_history,
                   grantVars, now>>

\* ------------------------------------------------------------- MCP server
\* request.execution_mode.upper()
Upper(m) == IF m = "shadow" THEN "SHADOW" ELSE m

\* PolicyEngine.validate as one call of the event loop: lines 285-373 on
\* the state the handler finds, no Timer thread in between
ValidateOutcome(tool, svc) ==
    IF GloballyBlocked(tool) THEN "BLOCKED_GLOBAL"
    ELSE LET mode_policy == policy.modes[current_mode]
             m == ModeChecks(mode_policy, tool, svc)
             u == UnhealthyCheck(current_mode, mode_policy, svc, unhealthy_services)
         IN IF m # "continue" THEN m
            ELSE IF u # "continue" THEN u
            ELSE IF incident_scope.present THEN ScopeCheck(incident_scope, svc)
            ELSE "ALLOWED"

\* tool_function(**arguments): the keyword arguments fit the wrapper's
\* signature; a request of the model carries service_name and count only
ToolArgsOk(tool, svc, count) ==
    IF tool = "get_service_status" THEN count = NoCount
    ELSE IF tool \in {"list_services", "read_logs"}
    THEN svc = NoService /\ count = NoCount
    ELSE IF tool = "restart_service" THEN svc # NoService /\ count = NoCount
    ELSE IF tool = "scale_fleet" THEN svc = NoService /\ count # NoCount
    ELSE FALSE

\* the action name each CloudInfrastructure method passes to _log_action
ToolLog(tool) ==
    IF tool = "delete_database" THEN "delete_database_attempt" ELSE tool

\* CloudInfrastructure.restart_service, lines 129-137
ToolServices(tool, svc) ==
    IF tool = "restart_service" /\ svc \in DOMAIN services
    THEN [services EXCEPT ![svc] = "healthy"]
    ELSE services

\* CloudInfrastructure.scale_fleet, lines 153-160
ToolFleet(tool, count) ==
    IF tool = "scale_fleet" /\ count >= 1 /\ count <= 100 THEN count
    ELSE fleet_size

\* mutant: the success test of line 372 never matches
RestartSucceeded_Never(tool, svc) == FALSE

\* line 372: tool_name == "restart_service" and "success" in the result,
\* and line 374: the request names a service
RestartSucceeded(tool, svc) ==
    tool = "restart_service" /\ svc \in DOMAIN services

\* _update_unhealthy_services
UpdateUnhealthy(svc) ==
    IF svc = NoService
    THEN (unhealthy_services
            \cup {s \in DOMAIN services : services[s] \in {"critical", "degraded"}})
            \ {s \in DOMAIN services : services[s] = "healthy"}
    ELSE IF HealthOf(svc) \in {"critical", "degraded"}
    THEN unhealthy_services \cup {svc}
    ELSE IF HealthOf(svc) = "healthy" THEN unhealthy_services \ {svc}
    ELSE unhealthy_services

\* execute_tool STEP 1, lines 278-292: the status check runs its tool
\* function and refreshes the unhealthy set
StatusCheck(f) ==
    IF ToolArgsOk(f.tool, f.svc, f.count)
    THEN /\ Len(execution_log) < MaxLog
         /\ execution_log' = Append(execution_log, ToolLog(f.tool))
         /\ unhealthy_services' = UpdateUnhealthy(f.svc)
         /\ frame' = f
         /\ Finish("success")
         /\ UNCHANGED <<services, fleet_size, current_mode, base_mode,
                        incident_scope, execution_history>>
    ELSE /\ frame' = f
         /\ Finish("HTTP 500")
         /\ UNCHANGED <<infraVars, engineVars, execution_history>>

\* mutant: the simulation goes through the infrastructure's logging
\* accessors
ShadowSimulation_Logged(f) ==
    /\ Len(execution_log) < MaxLog
    /\ frame' = [f EXCEPT !.report = Simulate(f.tool, f.svc, f.count, now)]
    /\ execution_log' = Append(execution_log, ToolLog(f.tool))
    /\ Finish("success")
    /\ UNCHANGED <<services, fleet_size, engineVars, execution_history>>

\* execute_tool STEP 2, lines 295-320
ShadowSimulation(f) ==
    /\ frame' = [f EXCEPT !.report = Simulate(f.tool, f.svc, f.count, now)]
    /\ Finish("success")
    /\ UNCHANGED <<infraVars, engineVars, execution_history>>

\* execute_tool STEP 3 and STEP 4, lines 322-402: validate, then the tool
\* function; a restart that succeeded also marks the service healthy
ValidateAndExecute(f) ==
    LET r == ValidateOutcome(f.tool, f.svc)
        restarted == RestartSucceeded(f.tool, f.svc)
        entries == IF restarted THEN <<ToolLog(f.tool), "health_change">>
                   ELSE <<ToolLog(f.tool)>>
    IN /\ Len(execution_history) < MaxHist
       /\ execution_history' = Append(execution_history, ValidationRecord(f, r))
       /\ frame' = f
       /\ IF r # "ALLOWED"
          THEN /\ Finish("policy_violation")
               /\ UNCHANGED <<infraVars, engineVars>>
          ELSE IF ~ToolArgsOk(f.tool, f.svc, f.count)
          THEN /\ Finish("Execution error")
               /\ UNCHANGED <<infraVars, engineVars>>
          ELSE /\ Len(execution_log) + Len(entries) <= MaxLog
               /\ execution_log' = execution_log \o entries
               /\ services' = ToolServices(f.tool, f.svc)
               /\ fleet_size' = ToolFleet(f.tool, f.count)
               /\ unhealthy_services' = IF restarted
                                        THEN unhealthy_services \ {f.svc}
                                        ELSE unhealthy_services
               /\ Finish("success")
               /\ UNCHANGED <<current_mode, base_mode, incident_scope>>

\* POST /tools/execute, lines 250-402
ExecuteTool(tool, svc, count, mode) ==
    /\ pc = "idle"
    /\ LET execution_mode == Upper(mode)
           f == [EmptyFrame EXCEPT !.op = "execute_tool", !.tool = tool,
                                   !.svc = svc, !.count = count,
                                   !.exec_mode = execution_mode]
       IN IF execution_mode \notin {"REAL", "SHADOW"}
          THEN /\ frame' = f
               /\ Finish("HTTP 400")
               /\ UNCHANGED <<infraVars, engineVars, execution_history>>
          ELSE IF tool = "get_service_status" THEN StatusCheck(f)
          ELSE IF execution_mode = "SHADOW" THEN ShadowSimulation(f)
          ELSE ValidateAndExecute(f)
    /\ UNCHANGED <<policy, grantVars, now>>

\* mutant: the incident changes the infrastructure and is not fed to the
\* policy engine
SimulateIncident_Untracked(service, status) ==
    /\ pc = "idle"
    /\ Len(execution_log) < MaxLog
    /\ frame' = [EmptyFrame EXCEPT !.op = "simulate_incident", !.svc = service]
    /\ services' = [services EXCEPT ![service] = status]
    /\ execution_log' = Append(execution_log, "health_change")
    /\ Finish("ok")
    /\ UNCHANGED <<policy, fleet_size, engineVars, execution_history,
                   grantVars, now>>

\* POST /infrastructure/simulate-incident, lines 460-478
SimulateIncident(service, status) ==
    /\ pc = "idle"
    /\ Len(execution_log) < MaxLog
    /\ frame' = [EmptyFrame EXCEPT !.op = "simulate_incident", !.svc = service]
    /\ services' = [services EXCEPT ![service] = status]
    /\ execution_log' = Append(execution_log, "health_change")
    /\ unhealthy_services' = IF status \in {"critical", "degraded"}
                             THEN unhealthy_services \cup {service}
                             ELSE unhealthy_services \ {service}
    /\ Finish("ok")
    /\ UNCHANGED <<policy, fleet_size, current_mode, base_mode, incident_scope,
                   execution_history, grantVars, now>>

\* ----------------------------------------------------------- audit queries
\* a Python slice h[start:] with start of either sign
SliceFrom(h, start) ==
    LET from == IF start < 0
                THEN (IF Len(h) + start > 0 THEN Len(h) + start ELSE 0)
                ELSE (IF start < Len(h) THEN start ELSE Len(h))
    IN SubSeq(h, from + 1, Len(h))

\* get_execution_history, line 407: self.execution_history[-limit:]
GetExecutionHistory(limit) ==
    /\ pc = "idle"
    /\ frame' = [EmptyFrame EXCEPT !.op = "get_execution_history",
                                   !.limit = limit,
                                   !.history = SliceFrom(execution_history, 0 - limit)]
    /\ Finish("ok")
    /\ UNCHANGED <<policy, infraVars, engineVars, execution_history,
                   grantVars, now>>

\* ------------------------------------------------------------ specification
Next ==
    \/ Tick
    \/ \E t \in TimerIds : TimerWake(t)
    \/ \E t \in TimerIds : ExpireClear(t)
    \/ \E t \in TimerIds : OnExpiryMode(t)
    \/ \E t \in TimerIds : OnExpiryScope(t)
    \/ \E d \in Durations : GrantBase(d)
    \/ GrantMode
    \/ GrantTimer
    \/ \E k \in Durations : ExtendCall(k)
    \/ ExtendLocked
    \/ RevokeCall
    \/ RevokeMode
    \/ RevokeScope
    \/ \E m \in ModeInputs : SetModeCall(m)
    \/ SetModeRevoke
    \/ SetModeCurrent
    \/ SetModeBase
    \/ \E S \in SUBSET Services : SetIncidentScope(S)
    \/ ClearIncidentScope
    \/ \E s \in Services : RegisterUnhealthyService(s)
    \/ \E s \in Services : MarkServiceHealthy(s)
    \/ \E tool \in Tools, svc \in ServiceArgs, shadow \in ShadowInputs :
           ValidateCall(tool, svc, shadow)
    \/ ValidateMode
    \/ ValidateEmergency
    \/ ValidateScope
    \/ ValidateAffected
    \/ ValidateIsValid
    \/ ValidateRemaining
    \/ Return

Spec == Init /\ [][Next]_vars

\* One grant, and no grant, extend, revoke or set_mode after it.  The clock
\* advances and every Timer thread is scheduled: the application thread
\* holds the lock only within single steps, so a woken timer gets it.
NoGrantYet == \A t \in TimerIds : timers[t].st = "unused"

NextGrantOnce ==
    \/ Tick
    \/ \E t \in TimerIds : TimerWake(t)
    \/ \E t \in TimerIds : ExpireClear(t)
    \/ \E t \in TimerIds : OnExpiryMode(t)
    \/ \E t \in TimerIds : OnExpiryScope(t)
    \/ \E d \in Durations : NoGrantYet /\ GrantBase(d)
    \/ GrantMode
    \/ GrantTimer
    \/ \E m \in ModeInputs : NoGrantYet /\ SetModeCall(m)
    \/ SetModeCurrent
    \/ SetModeBase
    \/ \E S \in SUBSET Services : SetIncidentScope(S)
    \/ ClearIncidentScope
    \/ \E s \in Services : RegisterUnhealthyService(s)
    \/ \E s \in Services : MarkServiceHealthy(s)
    \/ \E tool \in Tools, svc \in ServiceArgs, shadow \in ShadowInputs :
           ValidateCall(tool, svc, shadow)
    \/ ValidateMode
    \/ ValidateEmergency
    \/ ValidateScope
    \/ ValidateAffected
    \/ ValidateIsValid
    \/ ValidateRemaining
    \/ Return

TimerFairness ==
    /\ WF_vars(Tick)
    /\ \A t \in TimerIds :
          /\ WF_vars(TimerWake(t))
          /\ WF_vars(ExpireClear(t))
          /\ WF_vars(OnExpiryMode(t))
          /\ WF_vars(OnExpiryScope(t))

SpecGrantOnce == Init /\ [][NextGrantOnce]_vars /\ TimerFairness

\* The calls of the application thread and the expiry callback one after
\* the other: _expire starts between two calls, and no call starts or goes
\* on while the callback runs.
NoExpiryRunning == \A t \in TimerIds : timers[t].st \notin {"cb_mode", "cb_scope"}

AppCalls ==
    \/ \E d \in Durations : GrantBase(d)
    \/ GrantMode
    \/ GrantTimer
    \/ \E k \in Durations : ExtendCall(k)
    \/ ExtendLocked
    \/ RevokeCall
    \/ RevokeMode
    \/ RevokeScope
    \/ \E m \in ModeInputs : SetModeCall(m)
    \/ SetModeRevoke
    \/ SetModeCurrent
    \/ SetModeBase
    \/ \E S \in SUBSET Services : SetIncidentScope(S)
    \/ ClearIncidentScope
    \/ \E s \in Services : RegisterUnhealthyService(s)
    \/ \E s \in Services : MarkServiceHealthy(s)
    \/ \E tool \in Tools, svc \in ServiceArgs, shadow \in ShadowInputs :
           ValidateCall(tool, svc, shadow)
    \/ ValidateMode
    \/ ValidateEmergency
    \/ ValidateScope
    \/ ValidateAffected
    \/ ValidateIsValid
    \/ ValidateRemaining
    \/ Return

NextSerial ==
    \/ Tick
    \/ \E t \in TimerIds : TimerWake(t)
    \/ \E t \in TimerIds : pc = "idle" /\ ExpireClear(t)
    \/ \E t \in TimerIds : OnExpiryMode(t)
    \/ \E t \in TimerIds : OnExpiryScope(t)
    \/ NoExpiryRunning /\ AppCalls

SpecSerial == Init /\ [][NextSerial]_vars

\* PolicyEngine(policy_path) for any document _load_policy accepts, and the
\* calls that need no grant.
InitLoad ==
    /\ policy \in PolicyDocs
    /\ current_mode = "NORMAL"
    /\ base_mode = "NORMAL"
    /\ unhealthy_services = {}
    /\ incident_scope = NoScope
    /\ execution_history = <<>>
    /\ is_active = FALSE
    /\ expiry_time = NoTime
    /\ timer = NoTimer
    /\ lock = "free"
    /\ timers = [t \in TimerIds |-> [st |-> "unused", finished |-> FALSE, deadline |-> 0]]
    /\ now = 0
    /\ services = [s \in Services |-> "healthy"]
    /\ fleet_size = FleetSize
    /\ execution_log = <<>>
    /\ pc = "idle"
    /\ frame = EmptyFrame
    /\ ret = None

NextLoad ==
    \/ \E m \in ModeInputs : SetModeCall(m)
    \/ SetModeCurrent
    \/ SetModeBase
    \/ \E S \in SUBSET Services : SetIncidentScope(S)
    \/ ClearIncidentScope
    \/ \E s \in Services : RegisterUnhealthyService(s)
    \/ \E s \in Services : MarkServiceHealthy(s)
    \/ \E tool \in Tools, svc \in ServiceArgs, shadow \in ShadowInputs :
           ValidateCall(tool, svc, shadow)
    \/ ValidateMode
    \/ ValidateEmergency
    \/ ValidateScope
    \/ ValidateAffected
    \/ ValidateIsValid
    \/ Return

SpecLoad == InitLoad /\ [][NextLoad]_vars

\* the server as its endpoints drive it, no temporary grant in play: the
\* handlers run one at a time on the event loop
NextServer ==
    \/ \E m \in ModeInputs : SetModeCall(m)
    \/ SetModeCurrent
    \/ SetModeBase
    \/ \E S \in SUBSET Services : SetIncidentScope(S)
    \/ ClearIncidentScope
    \/ \E s \in Services, h \in Health : SimulateIncident(s, h)
    \/ \E tool \in Tools, svc \in ServiceArgs, count \in CountArgs,
          mode \in ExecutionModes : ExecuteTool(tool, svc, count, mode)
    \/ Return

SpecServer == Init /\ [][NextServer]_vars

\* the simulator called at any time, directly and through SHADOW
\* requests, on any infrastructure state an incident can produce and in
\* either mode
NextSimulate ==
    \/ Tick
    \/ \E m \in Modes : SetModeCall(m)
    \/ SetModeCurrent
    \/ SetModeBase
    \/ \E s \in Services, h \in Health : SimulateIncident(s, h)
    \/ \E tool \in CatalogTools, svc \in ServiceArgs, count \in CountArgs :
          SimulateCall(tool, svc, count)
    \/ \E tool \in CatalogTools, svc \in ServiceArgs, count \in CountArgs :
          ExecuteTool(tool, svc, count, "shadow")
    \/ Return

SpecSimulate == Init /\ [][NextSimulate]_vars

\* the audit log as the engine's operations fill it and a client reads it
NextHistory ==
    \/ \E m \in Modes : SetModeCall(m)
    \/ SetModeCurrent
    \/ SetModeBase
    \/ \E S \in SUBSET Services : SetIncidentScope(S)
    \/ \E tool \in Tools, svc \in ServiceArgs, shadow \in ShadowInputs :
           ValidateCall(tool, svc, shadow)
    \/ ValidateMode
    \/ ValidateEmergency
    \/ ValidateScope
    \/ ValidateAffected
    \/ ValidateIsValid
    \/ \E limit \in Limits : GetExecutionHistory(limit)
    \/ Return

SpecHistory == Init /\ [][NextHistory]_vars

\* ================================================================== claims
ValidateDone == pc = "done" /\ frame.op = "validate"

\* the decision validate recorded for the call in progress or just finished
Recorded == execution_history[Len(execution_history)].result

\* no other thread changed the engine or the grant while the call ran
Stable == frame.pre = Snapshot

\* the ordered checks of the validator's contract, on one state
OrderedChecks(mode, unhealthy, scope, tool, svc) ==
    LET mp == policy.modes[mode] IN
    IF tool \in policy.always_blocked THEN "BLOCKED_GLOBAL"
    ELSE IF tool \in mp.blocked_tools THEN "BLOCKED_MODE"
    ELSE IF tool \notin mp.allowed_tools THEN "NOT_WHITELISTED"
    ELSE IF tool \in {"restart_service", "scale_fleet", "delete_database"}
            /\ svc = NoService THEN MissingTarget
    ELSE IF tool \in {"restart_service", "scale_fleet", "delete_database"}
            /\ mode = "EMERGENCY" /\ mp.enabled /\ svc \notin unhealthy
         THEN "SERVICE_HEALTHY"
    ELSE IF tool \in {"restart_service", "scale_fleet", "delete_database"}
            /\ mode = "EMERGENCY" /\ mp.enabled /\ scope.present
            /\ svc \notin scope.affected
         THEN "OUT_OF_SCOPE"
    ELSE "ALLOWED"

\* C1: a validate call for a tool of global_rules.always_blocked is rejected
\* with BLOCKED_GLOBAL at its first step, and that is what it records, in
\* every mode, grant state, unhealthy set, scope and for every argument.
C1_GlobalBlock ==
    (frame.op = "validate" /\ frame.tool \in policy.always_blocked) =>
        /\ pc = "done"
        /\ ret = "BLOCKED_GLOBAL"
        /\ Recorded = "BLOCKED_GLOBAL"

C1_Witness ==
    /\ ValidateDone
    /\ frame.tool = "delete_database"
    /\ ret = "BLOCKED_GLOBAL"
    /\ current_mode = "EMERGENCY"
    /\ IsValid
    /\ frame.svc \in unhealthy_services

\* C2: in EMERGENCY with service_restrictions enabled, a validate call of
\* restart_service on target s that no other thread disturbs returns
\* SERVICE_HEALTHY when s is not unhealthy (in scope or not), OUT_OF_SCOPE
\* when s is unhealthy and a scope is set that excludes s, ALLOWED otherwise.
C2_ScalpelOutcome ==
    ( /\ ValidateDone
      /\ Stable
      /\ frame.tool = "restart_service"
      /\ frame.svc \in Services
      /\ frame.pre.mode = "EMERGENCY"
      /\ policy.modes["EMERGENCY"].enabled
      /\ "restart_service" \in policy.modes["EMERGENCY"].allowed_tools
      /\ "restart_service" \notin policy.modes["EMERGENCY"].blocked_tools
      /\ "restart_service" \notin policy.always_blocked )
    => ret = IF frame.svc \notin frame.pre.unhealthy THEN "SERVICE_HEALTHY"
             ELSE IF frame.pre.scope.present
                     /\ frame.svc \notin frame.pre.scope.affected
                  THEN "OUT_OF_SCOPE"
             ELSE "ALLOWED"

C2_Witness ==
    /\ ValidateDone
    /\ Stable
    /\ frame.tool = "restart_service"
    /\ frame.pre.mode = "EMERGENCY"
    /\ frame.svc \in frame.pre.unhealthy
    /\ frame.pre.scope.present
    /\ frame.pre.scope.affected # {}
    /\ ret = "OUT_OF_SCOPE"

\* C3: an undisturbed validate call returns, and records, the outcome of the
\* first failing check in the order global block-list, mode block-list, mode
\* allow-list, missing target, service not unhealthy, service out of scope,
\* and ALLOWED when none fails.
C3_CheckOrder ==
    (ValidateDone /\ Stable) =>
        /\ ret = OrderedChecks(frame.pre.mode, frame.pre.unhealthy,
                               frame.pre.scope, frame.tool, frame.svc)
        /\ Recorded = ret

C3_Witness ==
    /\ ValidateDone
    /\ Stable
    /\ frame.tool = "restart_service"
    /\ frame.svc = NoService
    /\ frame.pre.mode = "NORMAL"
    /\ ret = "BLOCKED_MODE"

\* C4: default deny.  A call decides ALLOWED only for a tool that the mode it
\* read from current_mode allow-lists and does not block-list and that is not
\* globally blocked; a tool on neither list of that mode is rejected with
\* NOT_WHITELISTED.
C4_DefaultDeny ==
    (frame.op = "validate" /\ frame.pol_mode # None) =>
        LET mp == policy.modes[frame.pol_mode] IN
        /\ frame.pol_mode \in {frame.pre.mode, base_mode}
        /\ (pc \in {"v_is_valid", "v_remaining", "done"} /\ Recorded = "ALLOWED") =>
              /\ frame.tool \in mp.allowed_tools
              /\ frame.tool \notin mp.blocked_tools
              /\ frame.tool \notin policy.always_blocked
        /\ (pc = "done" /\ ret = "ALLOWED") => Recorded = "ALLOWED"
        /\ (frame.tool \notin mp.allowed_tools /\ frame.tool \notin mp.blocked_tools
            /\ pc # "v_mode") =>
              pc = "done" /\ ret = "NOT_WHITELISTED"

C4_Witness ==
    /\ ValidateDone
    /\ frame.tool = "list_services"
    /\ frame.pol_mode = "EMERGENCY"
    /\ ret = "NOT_WHITELISTED"

\* C5: a validate call that runs while the expiry callback runs decides as
\* the ordered checks decide on one state that existed during the call (the
\* mode is the one at entry or base_mode, the scope the one at entry or the
\* cleared one); so restart_service on a service that is not unhealthy is
\* never decided ALLOWED under the restricted EMERGENCY policy.
C5_ConsistentSnapshot ==
    ValidateDone =>
        \E m \in {frame.pre.mode, base_mode}, sc \in {frame.pre.scope, NoScope} :
            Recorded = OrderedChecks(m, frame.pre.unhealthy, sc, frame.tool, frame.svc)

\* C6: once grant_temporary_emergency has returned and no grant, extend,
\* revoke or set_mode follows, the timer eventually fires and leaves the
\* grant inactive with current_mode = base_mode; and at every instant with
\* now >= expiry_time (the deadline included) is_valid() is false.
C6_AutoRevert ==
    /\ [](( is_active /\ expiry_time # NoTime /\ now >= expiry_time) => ~IsValid)
    /\ (pc = "done" /\ frame.op = "grant")
          ~> (~is_active /\ ~IsValid /\ current_mode = base_mode)

C6_Witness ==
    /\ \E t \in TimerIds : timers[t].st = "done"
    /\ ~is_active
    /\ current_mode = base_mode
    /\ base_mode = "NORMAL"
    /\ pc = "idle"

\* C7: grant_temporary_emergency leaves base_mode as it found it, also when
\* a grant is already active (so that expiry or revoke after consecutive
\* grants restores the mode in force before the first of them).
C7_GrantKeepsBase ==
    (frame.op = "grant" /\ pc \in {"g_mode", "g_grant", "done"}) =>
        base_mode = frame.pre.base

\* C8: between operations (no call and no expiry callback in progress)
\* current_mode = EMERGENCY whenever a grant is valid, and
\* current_mode = base_mode whenever no grant is active.
Quiescent ==
    /\ pc \in {"idle", "done"}
    /\ \A t \in TimerIds : timers[t].st \notin {"cb_mode", "cb_scope"}

C8_ModeInvariant ==
    Quiescent =>
        /\ IsValid => current_mode = "EMERGENCY"
        /\ ~is_active => current_mode = base_mode

\* C9: a timer that was canceled never runs _expire against the grant that
\* replaced it: no canceled timer is inside _expire (where it has cleared
\* is_active and goes on to reset current_mode and the scope) while the
\* timer of a later grant is armed.
C9_CanceledTimerInert ==
    \A t, u \in TimerIds :
        (timers[t].finished /\ timers[t].st \in {"cb_mode", "cb_scope"})
            => timers[u].st # "armed"

\* C10: at most one timer is pending and not canceled, and every armed timer
\* is the one the manager's timer field refers to (no orphan).
C10_SingleTimer ==
    /\ Cardinality({t \in TimerIds : timers[t].st \in {"armed", "fired"}
                                     /\ ~timers[t].finished}) <= 1
    /\ \A t \in TimerIds : timers[t].st = "armed" => timer = t

\* C11: an expiry callback that lost the race to revoke is a no-op.  Once
\* the revoking call has returned (the application thread is between
\* calls), a timer that it canceled (finished is set) and that no later
\* grant has replaced does not change current_mode or incident_scope when
\* the steps of its callback run.
C11_LoserIsNoOp ==
    [][\A t \in TimerIds :
          ( /\ timers[t].finished
            /\ pc \in {"idle", "done"}
            /\ timers[t].st \in {"cb_mode", "cb_scope"}
            /\ timers'[t].st # timers[t].st
            /\ \A u \in TimerIds : timers[u].st # "armed" )
          => /\ current_mode' = current_mode
             /\ incident_scope' = incident_scope]_vars

\* C12: extend on an active grant returns normally, with remaining_time()
\* strictly greater than before and the manager's timer armed for the new
\* deadline.
C12_ExtendIncreases ==
    [][(pc = "ext_extend" /\ is_active /\ pc' # pc)
          => /\ pc' = "done"
             /\ ret' = "ok"
             /\ RemainingTime' > RemainingTime
             /\ timer' # NoTimer
             /\ timers'[timer'].st = "armed"
             /\ timers'[timer'].deadline = expiry_time']_vars

\* C13: no call waits for a lock that its own thread already holds: the
\* application thread never rests inside a call with the manager's lock in
\* its hands.
C13_NoSelfDeadlock == lock # "app"

\* C14: extend_temporary_emergency called while is_valid() is false raises
\* ValueError at once and changes neither the grant, the timers, the modes
\* nor the history.
C14_ExtendInactiveFails ==
    [][(pc = "idle" /\ frame'.op = "extend" /\ ~IsValid)
          => /\ pc' = "done"
             /\ ret' = "ValueError"
             /\ UNCHANGED <<is_active, expiry_time, timer, timers, lock,
                            current_mode, base_mode, incident_scope,
                            execution_history>>]_vars

C14_Witness ==
    /\ pc = "done"
    /\ frame.op = "extend"
    /\ ret = "ValueError"
    /\ ~is_active
    /\ \E t \in TimerIds : timers[t].st \in {"done", "canceled"}
    /\ execution_history # <<>>

\* C15: revoke_temporary_emergency is idempotent.  When it returns, the
\* grant is inactive, no timer is armed, current_mode = base_mode and the
\* incident scope is empty; and a call made in such a state changes nothing.
Revoked ==
    /\ ~is_active
    /\ expiry_time = NoTime
    /\ timer = NoTimer
    /\ \A t \in TimerIds : timers[t].st # "armed"
    /\ current_mode = base_mode
    /\ incident_scope = NoScope

C15_RevokeIdempotent ==
    /\ []((pc = "done" /\ frame.op = "revoke") => Revoked)
    /\ [][(Revoked /\ frame'.op = "revoke" /\ pc' # pc)
             => UNCHANGED <<engineVars, is_active, expiry_time, timer, timers>>]_vars

\* C16: expiry has the effect of revoke.  Run one after the other with the
\* calls of the application thread, the _expire callback and
\* revoke_temporary_emergency both leave base_mode and unhealthy_services
\* as they found them and end in the same state: grant inactive, no expiry
\* time, timer None, current_mode = base_mode, incident scope empty.
RevokedState(base, unhealthy) ==
    [mode |-> base, base |-> base, unhealthy |-> unhealthy, scope |-> NoScope,
     active |-> FALSE, expiry |-> NoTime]

C16_ExpiryAsRevoke ==
    [][/\ \A t \in TimerIds :
            /\ (timers[t].st \in {"fired", "cb_mode", "cb_scope"}
                 /\ timers'[t].st # timers[t].st)
                    => UNCHANGED <<base_mode, unhealthy_services>>
            /\ (timers[t].st = "cb_scope" /\ timers'[t].st = "done")
                    => /\ Snapshot' = RevokedState(base_mode, unhealthy_services)
                       /\ timer' = NoTimer
       /\ (frame'.op = "revoke" /\ pc' # pc)
               => UNCHANGED <<base_mode, unhealthy_services>>
       /\ (pc = "r_scope" /\ pc' = "done")
               => /\ Snapshot' = RevokedState(base_mode, unhealthy_services)
                  /\ timer' = NoTimer]_vars

C16_Witness ==
    /\ pc = "idle"
    /\ \E t \in TimerIds : timers[t].st = "done"
    /\ \A t \in TimerIds : timers[t].st \in {"done", "unused"}
    /\ Snapshot = RevokedState("NORMAL", unhealthy_services)
    /\ unhealthy_services # {}

\* C17: validate resolves the mode as base_mode unless a grant is valid.
\* When it fetches the mode policy (line 297) while base_mode is not
\* EMERGENCY and is_valid() is false, also after the deadline and before the
\* timer callback has run, the lists it uses are those of base_mode, and a
\* tool base_mode does not allow-list is rejected there.
C17_BaseModeUnlessValid ==
    [][(pc = "v_mode" /\ pc' # pc /\ base_mode # "EMERGENCY" /\ ~IsValid)
          => /\ frame'.pol_mode = base_mode
             /\ frame.tool \notin policy.modes[base_mode].allowed_tools
                    => /\ pc' = "done"
                       /\ ret' \in {"BLOCKED_MODE", "NOT_WHITELISTED"}]_vars

\* C18: every validate call appends exactly one record, for its tool, at
\* the step that decides (no step before or after it appends), and the
\* call ends with the outcome that record holds.
Deciding == {"idle", "v_mode", "v_emergency", "v_scope", "v_affected"}
Decided == {"v_is_valid", "v_remaining", "done"}

C18_OneRecordPerCall ==
    [][(frame'.op = "validate" /\ pc' # pc)
          => LET n == Len(execution_history')
             IN /\ (pc \in Deciding /\ pc' \in Decided)
                       => /\ n = Len(execution_history) + 1
                          /\ execution_history'[n].tool_name = frame'.tool
                /\ ~(pc \in Deciding /\ pc' \in Decided)
                       => execution_history' = execution_history
                /\ pc' = "done" => ret' = execution_history'[n].result]_vars

\* C19: the audit log never holds more than its capacity N of entries, and
\* an append to a full log drops the oldest entry first.  N is taken one
\* below the number of appends the model follows.
AuditCapacity == MaxHist - 1

C19_BoundedLog ==
    /\ [](Len(execution_history) <= AuditCapacity)
    /\ [][(Len(execution_history) = AuditCapacity
             /\ execution_history' # execution_history)
            => /\ Len(execution_history') = AuditCapacity
               /\ SubSeq(execution_history', 1, AuditCapacity - 1)
                     = Tail(execution_history)]_vars

\* C20 as stated: every entry of the audit log is a validation record whose
\* outcome is one of ALLOWED, BLOCKED_GLOBAL, BLOCKED_MODE, NOT_WHITELISTED,
\* MISSING_TARGET, SERVICE_HEALTHY, OUT_OF_SCOPE.
StatedOutcomes ==
    {"ALLOWED", "BLOCKED_GLOBAL", "BLOCKED_MODE", "NOT_WHITELISTED",
     "MISSING_TARGET", "SERVICE_HEALTHY", "OUT_OF_SCOPE"}

RecordedOutcomes ==
    {"ALLOWED", "BLOCKED_GLOBAL", "BLOCKED_MODE", "NOT_WHITELISTED",
     "MISSING_SERVICE", "SERVICE_HEALTHY", "OUT_OF_SCOPE"}

LoggedActions ==
    {"grant_temporary_emergency", "extend_temporary_emergency",
     "set_incident_scope"}

C21_ValidateFrame ==
    [][(frame'.op = "validate" /\ pc' # pc)
          => UNCHANGED <<engineVars, is_active, expiry_time, timer, timers, lock>>]_vars

C21_Witness ==
    /\ ValidateDone
    /\ Stable
    /\ ret = "ALLOWED"
    /\ frame.tool = "restart_service"
    /\ IsValid
    /\ current_mode # base_mode

\* C22: set_incident_scope(S, ...) replaces the scope, so that
\* affected_services = S exactly, and unhealthy_services becomes its
\* previous value united with S.
C22_ScopeReplaced ==
    [][(pc = "idle" /\ frame'.op = "set_incident_scope")
          => /\ incident_scope'.present
             /\ incident_scope'.affected = frame'.services
             /\ unhealthy_services' = unhealthy_services \cup frame'.services]_vars

C22_Witness ==
    /\ pc = "done"
    /\ frame.op = "set_incident_scope"
    /\ frame.services = {"cache"}
    /\ incident_scope = Scope({"cache"})
    /\ unhealthy_services = {"cache", "web-server"}
    /\ Len(execution_history) = 2
    /\ execution_history[1].action = "set_incident_scope"

\* C23: unhealthy_services persists across scopes and grants: the only
\* steps that change it are register_unhealthy_service,
\* mark_service_healthy and set_incident_scope.
C23_UnhealthyPersists ==
    [][unhealthy_services' # unhealthy_services
          => /\ pc = "idle"
             /\ frame'.op \in {"register_unhealthy_service",
                               "mark_service_healthy", "set_incident_scope"}]_vars

C23_Witness ==
    /\ pc = "done"
    /\ frame.op = "clear_incident_scope"
    /\ incident_scope = NoScope
    /\ unhealthy_services # {}
    /\ \E t \in TimerIds : timers[t].st = "done"

\* a step of POST /tools/execute
ExecuteStep == pc = "idle" /\ frame'.op = "execute_tool"

\* C24: a /tools/execute request runs a tool function (every tool function
\* writes its entry to the infrastructure's execution_log first) only after
\* validate returned ALLOWED for the same tool in that request, so the step
\* appends the ALLOWED validation record of that tool; this for every tool
\* name and every execution_mode.
C24_ExecutedOnlyIfAllowed ==
    [][(ExecuteStep /\ execution_log' # execution_log)
          => execution_history' =
                Append(execution_history, ValidationRecord(frame', "ALLOWED"))]_vars

\* C25: in NORMAL mode with no active grant no state-mutating tool is
\* ALLOWED: a call that reads the NORMAL policy rejects restart_service and
\* scale_fleet with BLOCKED_MODE whatever the target, the unhealthy set and
\* the scope are; an undisturbed restart_service call on an unhealthy target
\* with no scope set is ALLOWED in EMERGENCY.
C25_NormalBlocksMutation ==
    /\ (frame.op = "validate" /\ frame.pol_mode = "NORMAL"
         /\ frame.tool \in {"restart_service", "scale_fleet"})
            => /\ pc = "done"
               /\ ret = "BLOCKED_MODE"
               /\ Recorded = "BLOCKED_MODE"
    /\ (ValidateDone /\ frame.pre.mode = "NORMAL" /\ ~frame.pre.active
         /\ IsModificationTool(frame.tool))
            => Recorded \in {"BLOCKED_MODE", "BLOCKED_GLOBAL"}
    /\ (ValidateDone /\ Stable /\ frame.pre.mode = "EMERGENCY"
         /\ frame.tool = "restart_service"
         /\ frame.svc \in frame.pre.unhealthy
         /\ ~frame.pre.scope.present)
            => ret = "ALLOWED"

C25_Witness ==
    /\ ValidateDone
    /\ frame.pre.mode = "NORMAL"
    /\ ~frame.pre.active
    /\ frame.tool = "restart_service"
    /\ frame.svc \in frame.pre.unhealthy
    /\ frame.pre.scope.present
    /\ frame.svc \in frame.pre.scope.affected
    /\ ret = "BLOCKED_MODE"

\* C26: in every constructed PolicyEngine the allowed_tools and the
\* blocked_tools of every mode are disjoint (a document that lists a tool in
\* both is refused when it is loaded).
C26_DisjointLists ==
    \A m \in DOMAIN policy.modes :
        policy.modes[m].allowed_tools \cap policy.modes[m].blocked_tools = {}

\* a report has just been produced, by simulate called directly or by a
\* SHADOW request
Simulated == pc = "done" /\ frame.report # NoReport

\* C27: a step in which simulate produces a report leaves the
\* infrastructure (services, fleet_size, execution_log), unhealthy_services,
\* incident_scope, the grant, current_mode and execution_history unchanged,
\* and validate decides every tool and target after it as it would have
\* before it.
C27_SimulateFrame ==
    [][(pc = "idle" /\ frame'.report # NoReport)
          => /\ UNCHANGED <<policy, infraVars, engineVars, execution_history,
                            grantVars>>
             /\ \A tool \in CatalogTools, svc \in ServiceArgs :
                    ValidateOutcome(tool, svc)' = ValidateOutcome(tool, svc)]_vars

C27_Witness ==
    /\ Simulated
    /\ frame.op = "execute_tool"
    /\ frame.tool = "restart_service"
    /\ frame.svc = "cache"
    /\ services["cache"] = "critical"
    /\ unhealthy_services = {"cache"}
    /\ current_mode = "EMERGENCY"
    /\ Len(execution_log) = 1
    /\ frame.report.risk_level = "medium"

\* the report a second call with the same tool name and arguments returns
\* now; the infrastructure is the one the first call saw, as no operation
\* has run since
Again == Simulate(frame.tool, frame.svc, frame.count, now)

C29_DeleteCritical ==
    (Simulated /\ frame.tool = "delete_database")
        => /\ frame.report.risk_level = "CRITICAL"
           /\ frame.report.reversible = FALSE
           /\ frame.report.recommendation = "NEVER PROCEED - Use alternatives"
           /\ frame.report.alternatives > 0

C29_Witness ==
    /\ Simulated
    /\ frame.tool = "delete_database"
    /\ frame.svc = "cache"
    /\ frame.count = 9
    /\ current_mode = "EMERGENCY"
    /\ services["web-server"] = "degraded"
    /\ frame.report.risk_level = "CRITICAL"

\* C30: for every read-only operation of the tool catalog (list_services,
\* get_service_status, read_logs) simulate reports risk_level "none" and
\* reversible = true.
C30_ReadOnlyNoRisk ==
    (Simulated /\ frame.tool \in {"list_services", "get_service_status", "read_logs"})
        => /\ frame.report.risk_level = "none"
           /\ frame.report.reversible = TRUE

\* max(0, n)
ClampZero(n) == IF n > 0 THEN n ELSE 0

\* C31: remaining_time() is None exactly when no grant is active and is
\* otherwise the non-negative number max(0, expiry_time - now); is_valid()
\* is true iff the grant is active and now < expiry_time, so is_valid() is
\* false whenever remaining_time() is 0 or None.
C31_RemainingAndValid ==
    /\ (RemainingTime = NoTime) <=> ~is_active
    /\ is_active => /\ RemainingTime >= 0
                    /\ RemainingTime = ClampZero(expiry_time - now)
    /\ IsValid <=> (is_active /\ expiry_time # NoTime /\ now < expiry_time)
    /\ (RemainingTime = 0 \/ RemainingTime = NoTime) => ~IsValid

C31_Witness ==
    /\ is_active
    /\ expiry_time # NoTime
    /\ now = expiry_time
    /\ RemainingTime = 0
    /\ ~IsValid
    /\ \E t \in TimerIds : timers[t].st = "armed"

\* the validation record the step has appended
Appended == execution_history'[Len(execution_history')]

\* C32: in EMERGENCY mode a scale_fleet request carrying the parameters the
\* tool catalog and the agent define for it (an integer count, no
\* service_name) passes validate with ALLOWED and is executed: the fleet
\* takes the requested size.
C32_ScaleFleetExecutes ==
    [][(/\ ExecuteStep
        /\ frame'.tool = "scale_fleet"
        /\ frame'.exec_mode = "REAL"
        /\ frame'.svc = NoService
        /\ frame'.count \in 1..100
        /\ current_mode = "EMERGENCY")
          => /\ Appended = ValidationRecord(frame', "ALLOWED")
             /\ ret' = "success"
             /\ fleet_size' = frame'.count]_vars

\* set_mode(m), m a mode of the policy, has returned
SetModeReturned == pc = "done" /\ frame.op = "set_mode" /\ ret = "ok"

\* C33: when set_mode(m) returns for a mode m of the policy,
\* current_mode = base_mode = m and no grant is valid; current_mode then
\* stays m while no other call is made, whatever timer of an earlier grant
\* fires; and the steps of set_mode leave incident_scope unchanged.
C33_SetModePermanent ==
    [][/\ SetModeReturned' => /\ current_mode' = frame'.mode
                               /\ base_mode' = frame'.mode
                               /\ ~IsValid'
       /\ (SetModeReturned /\ current_mode = frame.mode /\ pc' = "done")
             => current_mode' = current_mode
       /\ (frame'.op = "set_mode" /\ pc' # pc /\ pc' # "idle")
             => incident_scope' = incident_scope]_vars

\* C34: set_mode(m) with m not a mode of the policy fails with ValueError
\* and changes nothing: current_mode, base_mode, the grant and its timer,
\* incident_scope and unhealthy_services are as before the call.
C34_BadModeRejected ==
    [][(pc = "idle" /\ frame'.op = "set_mode"
          /\ frame'.mode \notin DOMAIN policy.modes)
          => /\ pc' = "done"
             /\ ret' = "ValueError"
             /\ UNCHANGED <<engineVars, grantVars>>]_vars

C34_Witness ==
    /\ pc = "done"
    /\ frame.op = "set_mode"
    /\ frame.mode = "BOGUS"
    /\ ret = "ValueError"
    /\ IsValid
    /\ current_mode = "EMERGENCY"
    /\ base_mode = "NORMAL"
    /\ incident_scope.present
    /\ \E t \in TimerIds : timers[t].st = "armed"

\* C35: after a restart_service request for service s was validated
\* ALLOWED and executed successfully through /tools/execute, s is not in
\* unhealthy_services and its infrastructure health is "healthy"; so,
\* while the EMERGENCY scope restriction is enabled, the same request
\* repeated at once is rejected with SERVICE_HEALTHY.
C35_RestartHeals ==
    [][(/\ ExecuteStep
        /\ frame'.tool = "restart_service"
        /\ frame'.exec_mode = "REAL"
        /\ ret' = "success")
          => /\ Appended = ValidationRecord(frame', "ALLOWED")
             /\ frame'.svc \notin unhealthy_services'
             /\ services'[frame'.svc] = "healthy"
             /\ \A s \in Services :
                   (/\ s = frame'.svc
                    /\ current_mode' = "EMERGENCY"
                    /\ policy.modes["EMERGENCY"].enabled)
                      => ValidateOutcome("restart_service", s)' = "SERVICE_HEALTHY"]_vars

C35_Witness ==
    /\ pc = "done"
    /\ frame.op = "execute_tool"
    /\ frame.tool = "restart_service"
    /\ frame.svc = "cache"
    /\ ret = "success"
    /\ current_mode = "EMERGENCY"
    /\ frame.pre = NoSnapshot
    /\ incident_scope = Scope({"cache", "web-server"})
    /\ unhealthy_services = {"web-server"}
    /\ services["cache"] = "healthy"
    /\ execution_log = <<"restart_service", "health_change">>

\* C36: a /tools/execute request with execution_mode SHADOW performs no
\* real action, for any tool name: it runs no tool function and leaves the
\* infrastructure, unhealthy_services, incident_scope, the grant,
\* current_mode and execution_history unchanged.
C36_ShadowNoAction ==
    [][(ExecuteStep /\ frame'.exec_mode = "SHADOW")
          => UNCHANGED <<infraVars, engineVars, grantVars, execution_history>>]_vars

\* the infrastructure reports s as degraded or critical
Ailing(s) == services[s] \in {"critical", "degraded"}

\* C37: the engine's unhealthy set mirrors the infrastructure's health:
\* after any sequence of server operations, every service known to the
\* infrastructure whose health is healthy, degraded or critical is in
\* unhealthy_services iff its health is degraded or critical.
C37_HealthMirror ==
    \A s \in DOMAIN services :
        services[s] \in Health => (s \in unhealthy_services <=> Ailing(s))

\* C37 as amended: every service whose health is degraded or critical is
\* in unhealthy_services; a service whose health is healthy enters
\* unhealthy_services only by a set_incident_scope call that names it, and
\* not by an operation that finds or makes it healthy.
C37_Amended ==
    [][\A s \in DOMAIN services :
          /\ Ailing(s)' => s \in unhealthy_services'
          /\ (services'[s] = "healthy" /\ s \in unhealthy_services')
                => \/ frame'.op = "set_incident_scope" /\ s \in frame'.services
                   \/ /\ services[s] = "healthy"
                      /\ s \in unhealthy_services
                      /\ ~(ExecuteStep /\ frame'.tool = "get_service_status"
                            /\ frame'.svc \in {s, NoService} /\ ret' = "success")]_vars

C37_Witness ==
    /\ pc = "done"
    /\ frame.op = "execute_tool"
    /\ frame.tool = "get_service_status"
    /\ frame.svc = "web-server"
    /\ services["cache"] = "healthy"
    /\ services["web-server"] = "critical"
    /\ incident_scope = Scope({"cache"})
    /\ unhealthy_services = {"cache", "web-server"}

\* the services of the incident scope, if one is set, are all unhealthy
ScopeUnhealthy ==
    incident_scope.present => incident_scope.affected \subseteq unhealthy_services

\* C38: whenever an incident scope is set, every service of its
\* affected_services is in unhealthy_services, after any sequence of
\* set_incident_scope, register_unhealthy_service, mark_service_healthy and
\* clear_incident_scope; hence validate never rejects the restart of an
\* in-scope service with SERVICE_HEALTHY.
C38_ScopeWithinUnhealthy ==
    /\ ScopeUnhealthy
    /\ (ValidateDone /\ Stable /\ frame.tool = "restart_service"
          /\ frame.pre.scope.present /\ frame.svc \in frame.pre.scope.affected)
            => Recorded # "SERVICE_HEALTHY"

\* C38 as amended: when set_incident_scope returns, every service of its
\* affected_services is in unhealthy_services, and the inclusion then
\* lasts until mark_service_healthy is called for a service of the scope.
C38_Amended ==
    [][/\ (pc = "idle" /\ frame'.op = "set_incident_scope") => ScopeUnhealthy'
       /\ (ScopeUnhealthy /\ ~ScopeUnhealthy')
             => /\ pc = "idle"
                /\ frame'.op = "mark_service_healthy"
                /\ frame'.svc \in incident_scope.affected]_vars

C38_Witness ==
    /\ pc = "done"
    /\ frame.op = "mark_service_healthy"
    /\ frame.svc = "cache"
    /\ incident_scope = Scope({"cache", "web-server"})
    /\ unhealthy_services = {"web-server"}
    /\ ~ScopeUnhealthy

\* the tool is in both lists of the mode validate took its policy from
InBothLists(tool, mode) ==
    /\ mode \in DOMAIN policy.modes
    /\ tool \in policy.modes[mode].allowed_tools
    /\ tool \in policy.modes[mode].blocked_tools

\* C39: the block-list takes precedence over the allow-list: a tool that is
\* in both allowed_tools and blocked_tools of the current mode and is not
\* globally blocked is rejected by validate with BLOCKED_MODE, never
\* ALLOWED.
C39_BlockListFirst ==
    (ValidateDone /\ InBothLists(frame.tool, frame.pre.mode)
       /\ ~GloballyBlocked(frame.tool))
        => /\ ret = "BLOCKED_MODE"
           /\ Recorded = "BLOCKED_MODE"

C39_Witness ==
    /\ ValidateDone
    /\ frame.tool = "scale_fleet"
    /\ frame.svc = "cache"
    /\ frame.pre.mode = "EMERGENCY"
    /\ InBothLists("scale_fleet", "EMERGENCY")
    /\ "cache" \in unhealthy_services
    /\ incident_scope = Scope({"cache"})
    /\ ret = "BLOCKED_MODE"

\* min(a, b)
Least(a, b) == IF a < b THEN a ELSE b

\* C40: get_execution_history(limit) returns, for every limit >= 0, exactly
\* the min(limit, length) most recently appended entries of
\* execution_history in append order, so at most limit entries and none for
\* limit = 0, and it does not modify execution_history.
C40_LastEntries ==
    [][\A limit \in Limits :
          (/\ pc = "idle"
           /\ frame'.op = "get_execution_history"
           /\ frame'.limit = limit
           /\ limit >= 0)
             => LET n == Least(limit, Len(execution_history))
                    last == Len(execution_history)
                IN /\ frame'.history = SubSeq(execution_history, last - n + 1, last)
                   /\ Len(frame'.history) <= limit
                   /\ execution_history' = execution_history]_vars

====
